---- MODULE Spec2Model ----
(***************************************************************************)
(* State-machine model of the sentiment dashboard page                     *)
(* (src/sentiment-analyzer/src/routes/+page.svelte): the analyze() result  *)
(* pipeline, the selection state, the reactive effects and the chart       *)
(* lifecycle in renderChart().                                             *)
(*                                                                         *)
(* Strings that the code inspects character by character (the review text  *)
(* and the keywords) are sequences of one-character strings; strings the   *)
(* code only stores or compares (messages, aspect names, labels) are TLA+  *)
(* strings.  The empty string "" is JavaScript's falsy string.             *)
(***************************************************************************)
EXTENDS Integers, Sequences, FiniteSets, TLC

\* ------------------------------------------------------------------ bounds
MaxTextLen == 2
MaxKeywords == 2
MaxKeywordLen == 2
MaxBatchTextLen == 5

\* --------------------------------------------------------------- alphabets
\* /[^a-zA-Z]/ : the characters the keyword regex keeps.
Letters ==
  {"a","b","c","d","e","f","g","h","i","j","k","l","m",
   "n","o","p","q","r","s","t","u","v","w","x","y","z",
   "A","B","C","D","E","F","G","H","I","J","K","L","M",
   "N","O","P","Q","R","S","T","U","V","W","X","Y","Z"}

\* What String.prototype.trim() removes (the members that the inputs use).
Whitespace == {" ", "\t", "\n", "\r"}

\* Characters the user can type into the textarea.
TextChars == {"a", " ", "\n"}

\* Characters of a pasted text: two letters, blanks inside a line and the
\* line break.
BatchChars == {"a", "b", " ", "\t", "\n"}

\* Characters a service keyword can be made of: letters of both cases and a
\* character that is no letter.
KeywordChars == {"a", "Z", "2"}

RECURSIVE SeqsUpTo(_, _)
SeqsUpTo(S, n) ==
  IF n = 0 THEN {<<>>}
  ELSE LET shorter == SeqsUpTo(S, n - 1)
       IN  shorter \cup {Append(s, c) : s \in {t \in shorter : Len(t) = n - 1}, c \in S}

KeywordStrings == SeqsUpTo(KeywordChars, MaxKeywordLen)
KeywordLists == SeqsUpTo(KeywordStrings, MaxKeywords)
\* ["fast!", "2-day", "", "Good"]
ExampleKeywords ==
  << <<"f","a","s","t","!">>, <<"2","-","d","a","y">>, <<>>, <<"G","o","o","d">> >>

\* ------------------------------------------------- keyword normalization
\* A replace that drops only the first offending character (the /g flag
\* forgotten).
RECURSIVE StripFirstNonLetter(_)
StripFirstNonLetter(keyword) ==
  IF keyword = <<>> THEN <<>>
  ELSE IF Head(keyword) \notin Letters THEN Tail(keyword)
  ELSE <<Head(keyword)>> \o StripFirstNonLetter(Tail(keyword))

\* keyword.replace(/[^a-zA-Z]/g, '')
StripNonLetters(keyword) == SelectSeq(keyword, LAMBDA c : c \in Letters)

\* The map alone: the filter of the empty strings forgotten.
normalizeUnfiltered(keywords) ==
  [i \in 1..Len(keywords) |-> StripNonLetters(keywords[i])]

\* common_keywords.map(replace).filter(keyword => keyword.length > 0)
normalize(keywords) ==
  SelectSeq([i \in 1..Len(keywords) |-> StripNonLetters(keywords[i])],
            LAMBDA k : Len(k) > 0)

\* ------------------------------------------------------- review batch
RECURSIVE SplitLines(_)
\* reviewsText.split('\n')
SplitLines(text) ==
  IF \A i \in 1..Len(text) : text[i] # "\n" THEN <<text>>
  ELSE LET i == CHOOSE j \in 1..Len(text) :
                  text[j] = "\n" /\ \A k \in 1..(j - 1) : text[k] # "\n"
       IN  <<SubSeq(text, 1, i - 1)>> \o SplitLines(SubSeq(text, i + 1, Len(text)))

RECURSIVE TrimStart(_)
TrimStart(s) ==
  IF s # <<>> /\ Head(s) \in Whitespace THEN TrimStart(Tail(s)) ELSE s

RECURSIVE TrimEnd(_)
TrimEnd(s) ==
  IF s # <<>> /\ s[Len(s)] \in Whitespace THEN TrimEnd(SubSeq(s, 1, Len(s) - 1)) ELSE s

\* r.trim()
trim(s) == TrimEnd(TrimStart(s))

\* The batch built without trimming the lines.
ReviewsUntrimmed(text) ==
  SelectSeq(SplitLines(text), LAMBDA r : r # <<>>)

\* The batch built without the filter that drops the empty lines.
ReviewsUnfiltered(text) ==
  LET lines == SplitLines(text)
  IN  [i \in 1..Len(lines) |-> trim(lines[i])]

\* reviewsText.split('\n').map((r) => r.trim()).filter((r) => r)
Reviews(text) ==
  LET lines == SplitLines(text)
  IN  SelectSeq([i \in 1..Len(lines) |-> trim(lines[i])], LAMBDA r : r # <<>>)

\* ------------------------------------------------------------ messages
ValidationMsg == "Please enter at least one review."
GenericRejection == "Something went wrong."
GenericFailure == "Request failed."
\* The message of the SyntaxError that response.json() rejects with when the
\* body is not JSON, and of the TypeError of calling .map on a missing
\* common_keywords.
SyntaxErrorMsg == "Unexpected token < in JSON at position 0"
TypeErrorMsg == "Cannot read properties of undefined (reading 'map')"
\* Messages of the error a rejected fetch() carries (an Error may have none).
FetchErrorMsgs == {"Failed to fetch", ""}

\* ---------------------------------------------------------- data model
undefined == "<undefined>"
AspectNames == {"battery", "screen"}
ChartTypes == {"pie", "bar", "doughnut", "polarArea"}

\* Sentiment mappings, in key order (label, percentage).
SentimentA == <<[label |-> "positive", pct |-> 70], [label |-> "Negative", pct |-> 30]>>
SentimentB == <<[label |-> "neutral", pct |-> 100]>>
SentimentC == <<[label |-> "mixed", pct |-> 120]>>

\* interface SentimentData; hasKeywords = FALSE is a body whose aspect lacks
\* the common_keywords array.
AspectInsight(name, sentiment, hasKeywords, keywords) ==
  [name |-> name, sentiment |-> sentiment, insight |-> "text",
   hasKeywords |-> hasKeywords, common_keywords |-> keywords]

\* A response body: json = FALSE is a body that JSON cannot parse.
Body(json, hasError, err, insights) ==
  [json |-> json, hasError |-> hasError, error |-> err, insights |-> insights]

GarbageBody == Body(FALSE, FALSE, "", <<>>)

\* Bodies of non-success responses: {"error": "model unavailable"},
\* {"error": ""}, {} and one that is not JSON.
ErrorBodies ==
  {Body(TRUE, TRUE, "model unavailable", <<>>),
   Body(TRUE, TRUE, "", <<>>),
   Body(TRUE, FALSE, "", <<>>),
   GarbageBody}

BodyTwo ==
  Body(TRUE, FALSE, "",
       <<AspectInsight("battery", SentimentA, TRUE,
                       << <<"f","a","s","t","!">>, <<"2","-","d","a","y">>, <<>>, <<"G","o","o","d">> >>),
         AspectInsight("screen", SentimentB, TRUE, << <<"d","i","m">>, <<"4","2">> >>)>>)
BodyScreen ==
  Body(TRUE, FALSE, "",
       <<AspectInsight("screen", SentimentC, TRUE, << <<"d","i","m">> >>)>>)
BodyEmpty == Body(TRUE, FALSE, "", <<>>)
\* {"insights": {"battery": {"sentiment": ..., "insight": ...}}}: no
\* common_keywords.
BodyNoKeywords ==
  Body(TRUE, FALSE, "",
       <<AspectInsight("battery", SentimentC, FALSE, <<>>)>>)

\* The bodies that follow the success response format.
FormatBodies == {BodyTwo, BodyScreen, BodyEmpty}
SuccessBodies == FormatBodies \cup {BodyNoKeywords, GarbageBody}

\* let result = $state<AnalysisResult | null>(null)
Null == [present |-> FALSE, insights |-> <<>>]
NoResponse == [received |-> FALSE, ok |-> FALSE, body |-> GarbageBody]
NoRequest == [sent |-> FALSE, reviews |-> <<>>]

\* Object.keys(insights), in insertion order
Keys(insights) == [i \in 1..Len(insights) |-> insights[i].name]
KeySet(insights) == {insights[i].name : i \in 1..Len(insights)}
\* The first aspect's data, whatever aspect is asked for.
LookupFirst(insights, aspect) == insights[1]

\* insights[aspect]
Lookup(insights, aspect) ==
  insights[CHOOSE i \in 1..Len(insights) : insights[i].name = aspect]

\* Object.keys(result.insights)[1]: the index off by one.
SecondAspect(res) ==
  IF res.present /\ Len(res.insights) > 1 THEN Keys(res.insights)[2] ELSE undefined

\* The last key of the result's insights instead of the first.
LastAspect(res) ==
  IF res.present /\ Len(res.insights) > 0
  THEN Keys(res.insights)[Len(res.insights)]
  ELSE undefined

\* result?.insights ? Object.keys(result.insights)[0] : undefined
FirstAspect(res) ==
  IF res.present /\ Len(res.insights) > 0 THEN Keys(res.insights)[1] ELSE undefined

\* The forEach over the aspects stops at the first aspect without
\* common_keywords (TypeError); the aspects before it are already normalized.
Throws(insights) == \E i \in 1..Len(insights) : ~insights[i].hasKeywords
NormalizeInsights(insights) ==
  [i \in 1..Len(insights) |->
     IF \A j \in 1..i : insights[j].hasKeywords
     THEN [insights[i] EXCEPT !.common_keywords = normalize(@)]
     ELSE insights[i]]

\* The fallback used for every rejection, whatever the body says.
AlwaysGeneric(err) == GenericRejection

\* err.error || 'Something went wrong.'
RejectionMessage(err) ==
  IF err.hasError /\ err.error # "" THEN err.error ELSE GenericRejection

\* (err as Error).message || 'Request failed.'
FailureMessage(message) == IF message # "" THEN message ELSE GenericFailure

\* ------------------------------------------------------------- the chart
AxisMax == 100
DefaultColor == "#2196F3"
\* label.toLowerCase(), on the labels the bodies use
LowerCase(label) == IF label = "Negative" THEN "negative" ELSE label
\* sentimentColors[lowerLabel] || '#2196F3'
SentimentColor(label) ==
  CASE LowerCase(label) = "positive" -> "#4CAF50"
    [] LowerCase(label) = "neutral" -> "#FF9800"
    [] LowerCase(label) = "negative" -> "#F44336"
    [] OTHER -> DefaultColor

BarScales == [y |-> TRUE, beginAtZero |-> TRUE, max |-> AxisMax, tickSuffix |-> "%"]
NoScales == [y |-> FALSE, beginAtZero |-> FALSE, max |-> 0, tickSuffix |-> ""]

\* The axis applied whatever the chart kind.
ScalesAlways(type) == BarScales

\* ...(selectedChartType === 'bar' && { scales: { y: {...} } })
Scales(type) == IF type = "bar" THEN BarScales ELSE NoScales

NoChart ==
  [live |-> FALSE, surface |-> "none", type |-> "pie", labels |-> <<>>, data |-> <<>>,
   backgroundColor |-> <<>>, legend |-> "right", tooltipSuffix |-> "%",
   title |-> <<undefined, "pie">>, scales |-> NoScales]

\* new Chart(canvas, {...}) for the sentiment mapping of `aspect`
NewChart(res, aspect, type) ==
  LET sentimentData == Lookup(res.insights, aspect).sentiment
      labels == [i \in 1..Len(sentimentData) |-> sentimentData[i].label]
      data == [i \in 1..Len(sentimentData) |-> sentimentData[i].pct]
  IN  [live |-> TRUE, surface |-> "attached", type |-> type,
       labels |-> labels, data |-> data,
       backgroundColor |-> [i \in 1..Len(labels) |-> SentimentColor(labels[i])],
       legend |-> IF type = "bar" THEN "top" ELSE "right",
       tooltipSuffix |-> "%",
       title |-> <<aspect, type>>,
       scales |-> Scales(type)]

\* The previous chart left alone.
DestroySkipped(instance) == <<>>

\* if (chartInstance) { chartInstance.destroy(); }
DestroyPrevious(instance) == IF instance.live THEN <<"destroy">> ELSE <<>>

\* An onSelect handler pasted from the first item: it sets 'pie' whatever
\* the item.
OnSelectAlwaysPie(value) == "pie"

\* <RadioItem value="bar" onSelect={() => (selectedChartType = 'bar')}>, and
\* the same for pie, doughnut and polarArea: each item sets its own value.
OnSelectChartType(value) == value

\* The previous result left in place when a submission starts.
ResultKept(res) == res

\* result = null, at the start of analyze()
ClearResult(res) == Null

\* The busy flag left as it is when a submission settles.
FinallyMissing(busy) == busy

\* finally { isLoading = false }
AfterFinally(busy) == FALSE

\* A button that is never disabled.
NeverDisabled(busy) == FALSE

\* <button onclick={analyze} disabled={isLoading}>
SubmitDisabled(busy) == busy

\* ------------------------------------------------------------- the state
VARIABLES
  reviewsText,        \* the textarea's text (bind:value)
  result,             \* the stored AnalysisResult, or Null
  error,              \* the stored error message, "" when absent
  isLoading,          \* the busy flag
  selectedChartType,
  selectedAspect,     \* an aspect name, or undefined
  canvas,             \* TRUE while the <canvas> of the dashboard is bound
  chartInstance,      \* the Chart held by chartInstance, or NoChart
  liveCharts,         \* Chart objects constructed and not destroyed
  pc,                 \* where analyze() is suspended
  request,            \* the request of the current submission
  response,           \* the response of the current submission
  triggerDirty,       \* the render-trigger $effect has to run
  repairDirty,        \* the selectedAspect-repair $effect has to run
  pendingRenders,     \* tick().then(renderChart) callbacks not yet run
  lastEvent,          \* the latest user action or settled submission
  chartOps,           \* chart operations since the latest user action
  chartAtEvent,       \* a chart was live at the latest user action
  mounted,            \* the page component exists (not yet torn down)
  inFlight,           \* fetch requests issued and not yet settled
  normPc, normInput, normOnce, normTwice   \* the keyword normalizer alone

appVars ==
  <<reviewsText, result, error, isLoading, selectedChartType, selectedAspect,
    canvas, chartInstance, liveCharts, pc, request, response, triggerDirty,
    repairDirty, pendingRenders, lastEvent, chartOps, chartAtEvent, mounted,
    inFlight>>
normVars == <<normPc, normInput, normOnce, normTwice>>
vars == <<appVars, normVars>>

Event(name, arg, changed) == [name |-> name, arg |-> arg, changed |-> changed]

\* The state after construction, the textarea apart.
AppInitRest ==
  /\ result = Null
  /\ error = ""
  /\ isLoading = FALSE
  /\ selectedChartType = "pie"
  /\ selectedAspect = undefined
  /\ canvas = FALSE
  /\ chartInstance = NoChart
  /\ liveCharts = 0
  /\ pc = "idle"
  /\ request = NoRequest
  /\ response = NoResponse
  /\ triggerDirty = FALSE
  /\ repairDirty = FALSE
  /\ pendingRenders = 0
  /\ lastEvent = Event("mount", "", FALSE)
  /\ chartOps = <<>>
  /\ chartAtEvent = FALSE
  /\ mounted = TRUE
  /\ inFlight = 0

AppInit ==
  /\ reviewsText = <<>>
  /\ AppInitRest

Init ==
  /\ AppInit
  /\ normPc = "off" /\ normInput = <<>> /\ normOnce = <<>> /\ normTwice = <<>>

\* The microtask queue is empty: every effect has run, the DOM is in step
\* with the state ({#if result} ... bind:this={canvas}) and no deferred
\* render is waiting.  User events and network completions are tasks of the
\* event loop and run only then.
Flushed == ~triggerDirty /\ ~repairDirty /\ canvas = result.present
Quiescent == mounted /\ Flushed /\ pendingRenders = 0

\* ---------------------------------------------------------- user actions
\* <textarea bind:value={reviewsText} disabled={isLoading}>: the user types
\* one more character ...
TypeChar(c) ==
  /\ Quiescent
  /\ ~isLoading
  /\ Len(reviewsText) < MaxTextLen
  /\ reviewsText' = Append(reviewsText, c)
  /\ lastEvent' = Event("input", "", TRUE)
  /\ chartOps' = <<>>
  /\ chartAtEvent' = chartInstance.live
  /\ UNCHANGED <<result, error, isLoading, selectedChartType, selectedAspect, canvas,
                 chartInstance, liveCharts, pc, request, response, triggerDirty,
                 repairDirty, pendingRenders, mounted, inFlight, normVars>>

\* ... or deletes the last one.
DeleteChar ==
  /\ Quiescent
  /\ ~isLoading
  /\ reviewsText # <<>>
  /\ reviewsText' = SubSeq(reviewsText, 1, Len(reviewsText) - 1)
  /\ lastEvent' = Event("input", "", TRUE)
  /\ chartOps' = <<>>
  /\ chartAtEvent' = chartInstance.live
  /\ UNCHANGED <<result, error, isLoading, selectedChartType, selectedAspect, canvas,
                 chartInstance, liveCharts, pc, request, response, triggerDirty,
                 repairDirty, pendingRenders, mounted, inFlight, normVars>>

\* analyze(), up to the validation return or the await of fetch();
\* the button is disabled={isLoading}.
Submit ==
  /\ Quiescent
  /\ ~SubmitDisabled(isLoading)
  /\ LET reviews == Reviews(reviewsText)
     IN  /\ result' = ClearResult(result)
         /\ response' = NoResponse
         /\ IF Len(reviews) = 0
            THEN /\ error' = ValidationMsg
                 /\ isLoading' = FALSE
                 /\ pc' = "idle"
                 /\ request' = NoRequest
                 /\ inFlight' = inFlight
                 /\ lastEvent' = Event("analyze", "ValidationError", TRUE)
            ELSE /\ error' = ""
                 /\ isLoading' = TRUE
                 /\ pc' = "awaitFetch"
                 /\ request' = [sent |-> TRUE, reviews |-> reviews]
                 /\ inFlight' = inFlight + 1
                 /\ lastEvent' = Event("analyze", "sent", TRUE)
  /\ triggerDirty' = (result' # result)
  /\ repairDirty' = (result' # result)
  /\ chartOps' = <<>>
  /\ chartAtEvent' = chartInstance.live
  /\ UNCHANGED <<reviewsText, selectedChartType, selectedAspect, canvas, chartInstance,
                 liveCharts, pendingRenders, mounted, normVars>>

\* DropdownMenu.RadioItem onSelect={() => (selectedChartType = ...)},
\* inside {#if result}
SelectChartType(type) ==
  /\ Quiescent
  /\ result.present
  /\ selectedChartType' = OnSelectChartType(type)
  /\ triggerDirty' = (selectedChartType' # selectedChartType)
  /\ lastEvent' = Event("SelectChartType", type, selectedChartType' # selectedChartType)
  /\ chartOps' = <<>>
  /\ chartAtEvent' = chartInstance.live
  /\ UNCHANGED <<reviewsText, result, error, isLoading, selectedAspect, canvas,
                 chartInstance, liveCharts, pc, request, response, repairDirty,
                 pendingRenders, mounted, inFlight, normVars>>

\* onSelect / onclick={() => (selectedAspect = aspect)} of an item of
\* {#each Object.keys(result.insights) as aspect}
SelectAspect(aspect) ==
  /\ Quiescent
  /\ result.present
  /\ aspect \in KeySet(result.insights)
  /\ selectedAspect' = aspect
  /\ triggerDirty' = (aspect # selectedAspect)
  /\ repairDirty' = (aspect # selectedAspect)
  /\ lastEvent' = Event("SelectAspect", aspect, aspect # selectedAspect)
  /\ chartOps' = <<>>
  /\ chartAtEvent' = chartInstance.live
  /\ UNCHANGED <<reviewsText, result, error, isLoading, selectedChartType, canvas,
                 chartInstance, liveCharts, pc, request, response, pendingRenders,
                 mounted, inFlight, normVars>>

\* ------------------------------------------------- the rest of analyze()
\* await fetch(...) fulfilled with a response; analyze goes on to
\* await response.json()
FetchFulfilled(ok, body) ==
  /\ Quiescent
  /\ pc = "awaitFetch"
  /\ response' = [received |-> TRUE, ok |-> ok, body |-> body]
  /\ pc' = IF ok THEN "awaitBody" ELSE "awaitErrorBody"
  /\ UNCHANGED <<reviewsText, result, error, isLoading, selectedChartType, selectedAspect,
                 canvas, chartInstance, liveCharts, request, triggerDirty, repairDirty,
                 pendingRenders, lastEvent, chartOps, chartAtEvent, mounted, inFlight, normVars>>

\* await fetch(...) rejected: catch, finally
FetchRejected(message) ==
  /\ Quiescent
  /\ pc = "awaitFetch"
  /\ error' = FailureMessage(message)
  /\ isLoading' = AfterFinally(isLoading)
  /\ inFlight' = inFlight - 1
  /\ pc' = "idle"
  /\ lastEvent' = Event("settled", "fetch rejected", TRUE)
  /\ UNCHANGED <<reviewsText, result, selectedChartType, selectedAspect, canvas,
                 chartInstance, liveCharts, request, response, triggerDirty, repairDirty,
                 pendingRenders, chartOps, chartAtEvent, mounted, normVars>>

\* if (!response.ok) { const err = await response.json(); error = ...; return }
\* with catch and finally
ErrorBodySettled ==
  /\ Quiescent
  /\ pc = "awaitErrorBody"
  /\ error' = IF response.body.json
              THEN RejectionMessage(response.body)
              ELSE FailureMessage(SyntaxErrorMsg)
  /\ isLoading' = AfterFinally(isLoading)
  /\ inFlight' = inFlight - 1
  /\ pc' = "idle"
  /\ lastEvent' = Event("settled", "not ok", TRUE)
  /\ UNCHANGED <<reviewsText, result, selectedChartType, selectedAspect, canvas,
                 chartInstance, liveCharts, request, response, triggerDirty, repairDirty,
                 pendingRenders, chartOps, chartAtEvent, mounted, normVars>>

\* result = await response.json(); the keyword normalization; selectedAspect;
\* with catch and finally
BodySettled ==
  /\ Quiescent
  /\ pc = "awaitBody"
  /\ IF ~response.body.json
     THEN /\ error' = FailureMessage(SyntaxErrorMsg)
          /\ UNCHANGED <<result, selectedAspect, triggerDirty, repairDirty>>
     ELSE /\ result' = [present |-> TRUE,
                        insights |-> NormalizeInsights(response.body.insights)]
          /\ IF Throws(response.body.insights)
             THEN /\ error' = FailureMessage(TypeErrorMsg)
                  /\ UNCHANGED selectedAspect
             ELSE /\ UNCHANGED error
                  /\ selectedAspect' = FirstAspect(result')
          /\ triggerDirty' = TRUE
          /\ repairDirty' = TRUE
  /\ isLoading' = AfterFinally(isLoading)
  /\ inFlight' = inFlight - 1
  /\ pc' = "idle"
  /\ lastEvent' = Event("settled", "ok", TRUE)
  /\ UNCHANGED <<reviewsText, selectedChartType, canvas, chartInstance, liveCharts,
                 request, response, pendingRenders, chartOps, chartAtEvent, mounted, normVars>>

\* ------------------------------------------- effects and deferred renders
\* {#if result} ... <canvas bind:this={canvas}>: the canvas is bound when the
\* dashboard is created and set back to null when it is removed; a chart
\* drawn on the removed canvas stays as it is.
BindCanvas ==
  /\ mounted
  /\ canvas # result.present
  /\ canvas' = result.present
  /\ chartInstance' = IF chartInstance.live /\ ~result.present
                      THEN [chartInstance EXCEPT !.surface = "detached"]
                      ELSE chartInstance
  /\ triggerDirty' = TRUE
  /\ UNCHANGED <<reviewsText, result, error, isLoading, selectedChartType, selectedAspect,
                 liveCharts, pc, request, response, repairDirty, pendingRenders,
                 lastEvent, chartOps, chartAtEvent, mounted, inFlight, normVars>>

\* $effect(() => { if (chartDependencies.result) tick().then(renderChart) })
RenderTrigger ==
  /\ triggerDirty
  /\ triggerDirty' = FALSE
  /\ pendingRenders' = IF result.present THEN pendingRenders + 1 ELSE pendingRenders
  /\ UNCHANGED <<reviewsText, result, error, isLoading, selectedChartType, selectedAspect,
                 canvas, chartInstance, liveCharts, pc, request, response, repairDirty,
                 lastEvent, chartOps, chartAtEvent, mounted, inFlight, normVars>>

\* $effect(() => { if (result && !selectedAspect)
\*                   selectedAspect = Object.keys(result.insights)[0] || undefined })
RepairSelection ==
  /\ repairDirty
  /\ LET repaired == IF result.present /\ selectedAspect = undefined
                     THEN FirstAspect(result)
                     ELSE selectedAspect
     IN  /\ selectedAspect' = repaired
         /\ repairDirty' = (repaired # selectedAspect)
         /\ triggerDirty' = (triggerDirty \/ repaired # selectedAspect)
  /\ UNCHANGED <<reviewsText, result, error, isLoading, selectedChartType, canvas,
                 chartInstance, liveCharts, pc, request, response, pendingRenders,
                 lastEvent, chartOps, chartAtEvent, mounted, inFlight, normVars>>

\* renderChart(), run by tick().then(...): tick() resolves once the pending
\* state changes have been applied.  result.insights[selectedAspect].sentiment
\* throws a TypeError, before anything is destroyed, when selectedAspect is
\* no key of the result.
RenderChart ==
  /\ pendingRenders > 0
  /\ Flushed
  /\ pendingRenders' = pendingRenders - 1
  /\ IF \/ ~result.present
        \/ ~canvas
        \/ selectedAspect = undefined
        \/ selectedAspect \notin KeySet(result.insights)
     THEN UNCHANGED <<chartInstance, liveCharts, chartOps>>
     ELSE LET destroyed == DestroyPrevious(chartInstance)
          IN  /\ chartInstance' = NewChart(result, selectedAspect, selectedChartType)
              /\ liveCharts' = liveCharts - Len(destroyed) + 1
              /\ chartOps' = chartOps \o destroyed \o <<"create">>
  /\ UNCHANGED <<reviewsText, result, error, isLoading, selectedChartType, selectedAspect,
                 canvas, pc, request, response, triggerDirty, repairDirty, lastEvent,
                 chartAtEvent, mounted, inFlight, normVars>>

\* The page is left and the component torn down: its DOM, the canvas
\* included, is removed.  The script registers no onDestroy and no effect
\* returns a cleanup, so nothing destroys the chart.
Unmount ==
  /\ Quiescent
  /\ mounted' = FALSE
  /\ canvas' = FALSE
  /\ chartInstance' = IF chartInstance.live
                      THEN [chartInstance EXCEPT !.surface = "detached"]
                      ELSE chartInstance
  /\ lastEvent' = Event("unmount", "", TRUE)
  /\ chartOps' = <<>>
  /\ chartAtEvent' = chartInstance.live
  /\ UNCHANGED <<reviewsText, result, error, isLoading, selectedChartType, selectedAspect,
                 liveCharts, pc, request, response, triggerDirty, repairDirty,
                 pendingRenders, inFlight, normVars>>

Next ==
  \/ \E c \in TextChars : TypeChar(c)
  \/ DeleteChar
  \/ Submit
  \/ \E type \in ChartTypes : SelectChartType(type)
  \/ \E aspect \in AspectNames : SelectAspect(aspect)
  \/ \E body \in SuccessBodies : FetchFulfilled(TRUE, body)
  \/ \E body \in ErrorBodies : FetchFulfilled(FALSE, body)
  \/ \E message \in FetchErrorMsgs : FetchRejected(message)
  \/ ErrorBodySettled
  \/ BodySettled
  \/ BindCanvas
  \/ RenderTrigger
  \/ RepairSelection
  \/ RenderChart
  \/ Unmount

Spec == Init /\ [][Next]_vars

\* The event loop runs every queued microtask (effects, canvas binding,
\* deferred renders), and the network call of a submission completes.
Progress ==
  \/ BindCanvas
  \/ RenderTrigger
  \/ RepairSelection
  \/ RenderChart
  \/ \E body \in SuccessBodies : FetchFulfilled(TRUE, body)
  \/ \E body \in ErrorBodies : FetchFulfilled(FALSE, body)
  \/ \E message \in FetchErrorMsgs : FetchRejected(message)
  \/ ErrorBodySettled
  \/ BodySettled

LiveSpec == Init /\ [][Next]_vars /\ WF_vars(Progress)

\* ------------------------------------------- the keyword normalizer alone
NormInit ==
  /\ AppInit
  /\ normPc = "input"
  /\ normInput \in KeywordLists \cup {ExampleKeywords}
  /\ normOnce = <<>>
  /\ normTwice = <<>>

NormalizeOnce ==
  /\ normPc = "input"
  /\ normOnce' = normalize(normInput)
  /\ normPc' = "once"
  /\ UNCHANGED <<normInput, normTwice, appVars>>

NormalizeAgain ==
  /\ normPc = "once"
  /\ normTwice' = normalize(normOnce)
  /\ normPc' = "twice"
  /\ UNCHANGED <<normInput, normOnce, appVars>>

NormNext == NormalizeOnce \/ NormalizeAgain

NormSpec == NormInit /\ [][NormNext]_vars

\* ------------------------------------------------ the batch of a submission
\* The page with a text of several lines in the textarea (typed or pasted),
\* and the analyze button pressed.
BatchTexts == SeqsUpTo(BatchChars, MaxBatchTextLen)

BatchInit ==
  /\ reviewsText \in BatchTexts
  /\ AppInitRest
  /\ normPc = "off" /\ normInput = <<>> /\ normOnce = <<>> /\ normTwice = <<>>

BatchNext == Submit

BatchSpec == BatchInit /\ [][BatchNext]_vars

\* ================================================================ claims
SettledOk == lastEvent = Event("settled", "ok", TRUE)
SettledNotOk == lastEvent = Event("settled", "not ok", TRUE)
IsBlank(text) == \A i \in 1..Len(text) : text[i] \in Whitespace
HasCreate(ops) == \E i \in 1..Len(ops) : ops[i] = "create"

\* C1: in every reachable state the stored result and the stored error
\* message are not both present.
C1_ResultErrorExclusive == ~(result.present /\ error # "")

\* C2: at most one chart is live at any time, and every chart creation
\* after the first directly follows the release of the previous chart.
C2_AtMostOneLiveChart ==
  /\ liveCharts <= 1
  /\ chartInstance.live <=> (liveCharts = 1)
  /\ \A i \in 1..Len(chartOps) :
       chartOps[i] = "create" =>
         IF i = 1 THEN ~chartAtEvent ELSE chartOps[i - 1] = "destroy"

C2_Witness ==
  /\ chartAtEvent
  /\ Len(chartOps) >= 2
  /\ chartOps[1] = "destroy"
  /\ chartOps[2] = "create"
  /\ liveCharts = 1

\* C3 (as stated): after a successful response to a non-empty batch, with any
\* insights mapping the response format allows, selectedAspect is present
\* and is a key of the new result's insights.
C3_SelectedAspectIsKey ==
  (SettledOk /\ request.sent /\ response.body \in FormatBodies)
    => /\ result.present
       /\ selectedAspect # undefined
       /\ selectedAspect \in KeySet(result.insights)

\* C3 (amended): the same, for a response whose insights mapping has at
\* least one aspect.
C3_SelectedAspectIsKeyIfAny ==
  (SettledOk /\ request.sent /\ response.body \in FormatBodies
     /\ Len(response.body.insights) > 0)
    => /\ result.present
       /\ selectedAspect # undefined
       /\ selectedAspect \in KeySet(result.insights)

C3_Witness ==
  /\ SettledOk
  /\ request.sent
  /\ response.body = BodyScreen
  /\ selectedAspect = "screen"
  /\ chartAtEvent

\* C4: submitting a text that is empty or only whitespace and line breaks
\* issues no request and ends with the validation message stored, the result
\* absent and the busy flag cleared.
C4_BlankInputNoRequest ==
  (lastEvent.name = "analyze" /\ IsBlank(reviewsText))
    => /\ lastEvent.arg = "ValidationError"
       /\ error = ValidationMsg
       /\ ~result.present
       /\ ~isLoading
       /\ ~request.sent
       /\ ~response.received
       /\ pc = "idle"

C4_Witness ==
  /\ lastEvent.name = "analyze"
  /\ reviewsText = <<" ", "\n">>
  /\ error = ValidationMsg
  /\ ~request.sent

\* C5 (as stated): a non-success response whose body carries an error string
\* ends with exactly that string stored, the result absent, the busy flag
\* cleared and no chart created since the submission.
C5_RejectionStoresErrorString ==
  (SettledNotOk /\ response.body.json /\ response.body.hasError)
    => /\ error = response.body.error
       /\ ~result.present
       /\ ~isLoading
       /\ ~HasCreate(chartOps)

\* C5 (amended): the same, for a body whose error string is not empty.
C5_RejectionStoresNonEmptyErrorString ==
  (SettledNotOk /\ response.body.json /\ response.body.hasError
     /\ response.body.error # "")
    => /\ error = response.body.error
       /\ ~result.present
       /\ ~isLoading
       /\ ~HasCreate(chartOps)

C5_Witness ==
  /\ SettledNotOk
  /\ response.body.json
  /\ response.body.hasError
  /\ error = "model unavailable"
  /\ chartInstance.live

\* C6: a non-success response whose body cannot be parsed ends with the
\* generic rejection message stored.
C6_UnparsableRejectionGeneric ==
  (SettledNotOk /\ ~response.body.json) => error = GenericRejection

\* C7: after SelectChartType(t) with a result and a selected aspect present,
\* the chart created next has kind t and carries the 0-100 axis with
\* %-suffixed ticks exactly when t is bar.
C7_ChartKindAndAxis ==
  (lastEvent.name = "SelectChartType" /\ result.present /\ selectedAspect # undefined
     /\ HasCreate(chartOps))
    => /\ chartInstance.type = lastEvent.arg
       /\ (chartInstance.scales = BarScales) <=> (lastEvent.arg = "bar")
       /\ chartInstance.scales.y <=> (lastEvent.arg = "bar")

C7_Witness ==
  /\ lastEvent = Event("SelectChartType", "bar", TRUE)
  /\ HasCreate(chartOps)
  /\ chartInstance.type = "bar"
  /\ chartInstance.scales = BarScales

\* C8: with a chart live and a result present, a change of the chart kind or
\* of the aspect is followed by exactly one release and then exactly one
\* creation.
C8_OneDestroyOneCreate ==
  (Quiescent /\ lastEvent.name \in {"SelectChartType", "SelectAspect"}
     /\ lastEvent.changed /\ chartAtEvent /\ result.present)
    => chartOps = <<"destroy", "create">>

\* C9: once the deferred work has run, with a result, a selected aspect and
\* the canvas present, the live chart is the one built from the current
\* result, the current selectedAspect and the current chart kind.
C9_SurfaceReflectsTriple ==
  (Quiescent /\ result.present /\ selectedAspect # undefined /\ canvas)
    => /\ chartInstance.live
       /\ selectedAspect \in KeySet(result.insights)
       /\ chartInstance = NewChart(result, selectedAspect, selectedChartType)

\* C10: normalizing an already normalized keyword list changes nothing.
C10_NormalizeIdempotent == (normPc = "twice") => normTwice = normOnce

C10_Witness ==
  /\ normPc = "twice"
  /\ normOnce # normInput
  /\ normOnce # <<>>
  /\ normTwice = normOnce

\* C11: normalization returns the keywords with every character that is no
\* ASCII letter removed, the keywords left empty dropped, the others in
\* their order and with their duplicates; no output keyword is empty or
\* holds a non-letter or a character its input lacks; the example list
\* gives fast, day, Good.
RECURSIVE LettersOf(_)
LettersOf(keyword) ==
  IF keyword = <<>> THEN <<>>
  ELSE (IF Head(keyword) \in Letters THEN <<Head(keyword)>> ELSE <<>>)
         \o LettersOf(Tail(keyword))

RECURSIVE SurvivingKeywords(_)
SurvivingKeywords(keywords) ==
  IF keywords = <<>> THEN <<>>
  ELSE (IF LettersOf(Head(keywords)) = <<>> THEN <<>> ELSE <<LettersOf(Head(keywords))>>)
         \o SurvivingKeywords(Tail(keywords))

CharsOf(keywords) ==
  UNION {{keywords[i][j] : j \in 1..Len(keywords[i])} : i \in 1..Len(keywords)}

C11_NormalizeExact ==
  (normPc # "input") =>
    /\ normOnce = SurvivingKeywords(normInput)
    /\ \A i \in 1..Len(normOnce) :
         /\ normOnce[i] # <<>>
         /\ \A j \in 1..Len(normOnce[i]) : normOnce[i][j] \in Letters
    /\ CharsOf(normOnce) \subseteq CharsOf(normInput)
    /\ Len(normOnce) <= Len(normInput)
    /\ (normInput = ExampleKeywords) =>
         normOnce = << <<"f","a","s","t">>, <<"d","a","y">>, <<"G","o","o","d">> >>

C11_Witness ==
  /\ normPc = "once"
  /\ normInput = ExampleKeywords
  /\ normOnce = << <<"f","a","s","t">>, <<"d","a","y">>, <<"G","o","o","d">> >>

\* C12 (as stated): SelectChartType can be performed, and sets the chart
\* kind, whether or not a result is present.
C12_SelectChartTypeWithoutResult ==
  Quiescent => \A t \in ChartTypes : ENABLED SelectChartType(t)

\* C12 (amended): the chart kind changes only in a SelectChartType step - no
\* submission, outcome, SelectAspect or render changes it - and every
\* SelectChartType(t) step, which the page offers only while a result is
\* present, sets it to t.
C12_ChartTypeOnlyBySelectChartType ==
  [][ /\ (selectedChartType' # selectedChartType)
           => /\ result.present
              /\ lastEvent'.name = "SelectChartType"
              /\ lastEvent'.arg = selectedChartType'
      /\ \A t \in ChartTypes : SelectChartType(t) => selectedChartType' = t
    ]_vars

C12_Witness ==
  /\ SettledOk
  /\ result.present
  /\ chartAtEvent
  /\ selectedChartType = "doughnut"

\* C13: every submission is followed by the busy flag being cleared, whatever
\* the outcome; the flag is set again only by the next submission, and once
\* it is clear and the page is at rest the submit control can be used.
C13_SubmissionTerminates ==
  /\ (isLoading /\ mounted) ~> (~isLoading \/ ~mounted)
  /\ [][(~isLoading /\ isLoading') => lastEvent' = Event("analyze", "sent", TRUE)]_vars
  /\ []((Quiescent /\ ~isLoading) => ENABLED Submit)

C13_Witness ==
  /\ lastEvent = Event("settled", "fetch rejected", TRUE)
  /\ error = GenericFailure
  /\ ~isLoading
  /\ mounted

\* C14: after the view is torn down no chart remains live.
C14_NoLiveChartAfterTeardown == ~mounted => liveCharts = 0

\* C15: when a new result arrives and the selected aspect is still one of
\* its keys, selectedAspect is left unchanged.
C15_StillValidSelectionKept ==
  [][ (/\ pc = "awaitBody"
       /\ pc' = "idle"
       /\ result'.present
       /\ error' = ""
       /\ selectedAspect \in KeySet(result'.insights))
        => selectedAspect' = selectedAspect
    ]_vars

\* C16: whenever a result is present, selectedAspect is absent or a key of
\* that result's insights.
C16_SelectedAspectAbsentOrKey ==
  result.present =>
    (selectedAspect = undefined \/ selectedAspect \in KeySet(result.insights))

\* C17: a step that creates or releases a chart happens with the result, the
\* selected aspect and the canvas present, and the chart it leaves is built
\* from the result, the selectedAspect and the chart kind of that moment; a
\* deferred render that finds one of them absent changes no chart.
ChartStep == Len(chartOps') > Len(chartOps) \/ liveCharts' # liveCharts

C17_RenderUsesCurrentState ==
  [][ /\ ChartStep =>
           /\ result.present
           /\ canvas
           /\ selectedAspect # undefined
           /\ chartInstance'.live
           /\ chartInstance'.surface = "attached"
           /\ chartInstance'.type = selectedChartType
           /\ chartInstance'.title = <<selectedAspect, selectedChartType>>
           /\ \E i \in 1..Len(result.insights) :
                /\ result.insights[i].name = selectedAspect
                /\ Len(chartInstance'.data) = Len(result.insights[i].sentiment)
                /\ \A j \in 1..Len(result.insights[i].sentiment) :
                     /\ chartInstance'.labels[j] = result.insights[i].sentiment[j].label
                     /\ chartInstance'.data[j] = result.insights[i].sentiment[j].pct
      /\ (pendingRenders' < pendingRenders
            /\ (~result.present \/ ~canvas \/ selectedAspect = undefined))
           => (chartInstance' = chartInstance /\ liveCharts' = liveCharts)
    ]_vars

C17_Witness ==
  /\ response.body = BodyNoKeywords
  /\ result.present
  /\ HasCreate(chartOps)
  /\ chartInstance.surface = "attached"
  /\ chartInstance.title[1] = "battery"
  /\ chartInstance.data = <<120>>

\* C18: while the busy flag is set, the stored result and the stored error
\* are both absent.
C18_BusyMeansNoResultNoError ==
  isLoading => (~result.present /\ error = "")

C18_Witness ==
  /\ isLoading
  /\ pc = "awaitBody"
  /\ chartInstance.live
  /\ ~result.present
  /\ error = ""

\* C19: after a successful analysis whose insights mapping is not empty,
\* selectedAspect is the first aspect name of the new result, whatever was
\* selected before.
C19_FirstAspectSelected ==
  (SettledOk /\ result.present /\ error = "" /\ Len(result.insights) > 0)
    => selectedAspect = result.insights[1].name

\* The chart not yet redrawn is still the one drawn for "screen" of the same
\* two-aspect result: the selection was still valid and was replaced.
C19_Witness ==
  /\ SettledOk
  /\ response.body = BodyTwo
  /\ selectedAspect = "battery"
  /\ chartInstance.live
  /\ chartInstance.title[1] = "screen"
  /\ chartInstance.data = <<100>>

\* C20: the submit control cannot be used while the busy flag is set; at most
\* one request is in flight, exactly while the flag is set, and it carries
\* the batch of the latest submission; the outcome stored is that of this
\* submission.
C20_NoOverlappingSubmissions ==
  /\ inFlight <= 1
  /\ isLoading => ~ENABLED Submit
  /\ isLoading <=> (inFlight = 1)
  /\ isLoading <=> (pc # "idle")
  /\ (inFlight = 1 \/ lastEvent.name = "settled")
       => (request.sent /\ request.reviews = Reviews(reviewsText))

C20_Witness ==
  /\ inFlight = 1
  /\ isLoading
  /\ pc = "awaitErrorBody"
  /\ lastEvent = Event("analyze", "sent", TRUE)

\* C21: in every reachable state of the mounted page with the result absent
\* no chart is live: the chart drawn for a result is released when a new
\* submission clears that result.
C21_NoLiveChartWithoutResult ==
  (mounted /\ ~result.present) => (liveCharts = 0 /\ ~chartInstance.live)

\* C22: the batch of a request is the sequence of the text's lines that hold
\* a non-whitespace character, in the text's order, each cut from its first
\* to its last non-whitespace character; a request is sent exactly when
\* there is such a line (otherwise the validation message is stored), and no
\* element of a batch is empty.
LineOf(text, i) == Cardinality({j \in 1..(i - 1) : text[j] = "\n"})
Inked(text) == {i \in 1..Len(text) : text[i] \notin Whitespace}
InkedIn(text, line) == {i \in Inked(text) : LineOf(text, i) = line}
InkedLines(text) == {LineOf(text, i) : i \in Inked(text)}
Least(S) == CHOOSE x \in S : \A y \in S : x <= y
Greatest(S) == CHOOSE x \in S : \A y \in S : y <= x

C22_BatchExact ==
  lastEvent.name = "analyze" =>
    LET text == reviewsText
        batch == request.reviews
        lines == InkedLines(text)
    IN  /\ request.sent <=> (lines # {})
        /\ ~request.sent => (error = ValidationMsg /\ ~isLoading /\ inFlight = 0)
        /\ request.sent =>
             /\ Len(batch) = Cardinality(lines)
             /\ \A k \in 1..Len(batch) :
                  /\ batch[k] # <<>>
                  /\ \E l \in lines :
                       /\ Cardinality({m \in lines : m < l}) = k - 1
                       /\ batch[k] = SubSeq(text, Least(InkedIn(text, l)),
                                            Greatest(InkedIn(text, l)))

C22_Witness ==
  /\ lastEvent = Event("analyze", "sent", TRUE)
  /\ reviewsText = <<"\t", "a", "\n", "\n", "b">>
  /\ request.sent
  /\ request.reviews = << <<"a">>, <<"b">> >>

====
